---- MODULE Spec2Model ----
(***************************************************************************)
(* The rolling MIDI event buffer of the on-screen piano, with its two      *)
(* consumers (MIDI file export, piano-roll render), as implemented by the *)
(* two scripts demo_0.py and demo_2_grid.py.                               *)
(*                                                                         *)
(* Time is counted in whole seconds.  time.time() is the variable now; it  *)
(* starts at StartEpoch (the Unix time at which the script is started) and *)
(* advances in steps of StepSec.  Pixel coordinates are integers, as in    *)
(* pygame.Rect, which truncates the floats it is given.                    *)
(***************************************************************************)
EXTENDS Integers, Sequences, FiniteSets, TLC

\* ------------------------------------------------------------------ bounds
MaxEvents == 3
StepSec == 10
MaxElapsed == 40
StartEpoch == 1000
MaxBufLen == 2           \* events in a buffer handed to render and export
MaxStrokes == 2          \* key strokes (press and release) in a buffer
MaxLoopEvents == 4       \* events the control loop emits

Notes == {60, 93, 94}
Velocities == {0, 100}

\* ------------------------------------------------------- program constants
buffer_duration == 30
demo0_duration == 30
time_window == 10
note_range == 48
note_start == 45
note_end == 93
note_height == 4
NOTE_ON == 144
NOTE_OFF == 128
TEMPO_BPM == 120
BEATS_PER_SECOND == 2
VIEWPORT_LEFT == 20
VIEWPORT_TOP == 580
VIEWPORT_WIDTH == 1018
VIEWPORT_HEIGHT == 200

VARIABLES
    prog,              \* which script is running: "demo_0" or "demo_2_grid"
    now,               \* time.time()
    start_time,        \* MidiBuffer.start_time / MidiPiano.start_time
    buffer,            \* demo_2_grid: MidiBuffer.buffer (a deque)
    recording_buffer,  \* demo_0: MidiPiano.recording_buffer (a deque)
    current_time,      \* the local current_time of the last append
    midiout,           \* the messages handed to rtmidi's send_message, in order
    appended,          \* the events handed to deque.append, in order
    midi_file,         \* the file written by the last export that wrote one
    stdout,            \* the last line printed
    raised,            \* the exception the last call let escape, "none" if none
    surface,           \* the draw calls of the last render, in order
    active_notes,      \* render's local dict when the last render returned
    render_time,       \* current_relative_time of the last render
    last_op,           \* the operation of the program that ran last
    buttons            \* demo_2_grid: MidiPiano.buttons, with what each has sent

vars == <<prog, now, start_time, buffer, recording_buffer, current_time,
          midiout, appended, midi_file, stdout, raised, surface,
          active_notes, render_time, last_op, buttons>>

\* ---------------------------------------------------------------- helpers
Max(a, b) == IF a >= b THEN a ELSE b
Min(a, b) == IF a <= b THEN a ELSE b

\* int(num / den) for den > 0: Python and pygame truncate toward zero.
ToInt(num, den) == IF num >= 0 THEN num \div den ELSE -((-num) \div den)

MidiEvent(note, velocity, timestamp) ==
    [note |-> note, velocity |-> velocity, timestamp |-> timestamp]

NoFile == [name |-> <<>>, tempo |-> <<>>, notes |-> <<>>]

\* ------------------------------------------------------------ the buffer
\* The eviction loop: while buffer and current_time - buffer[0].timestamp >
\* duration: buffer.popleft().  ct is read once, before the loop.
RECURSIVE Cleanup(_, _, _)

\* Cleanup with >= in place of >: an event of age exactly D goes too.
CleanupNonStrict(buf, ct, duration) ==
    IF Len(buf) > 0 /\ ct - buf[1].timestamp >= duration
    THEN Cleanup(Tail(buf), ct, duration)
    ELSE buf

\* Cleanup with the comparison turned round: the young events go.
CleanupInverted(buf, ct, duration) ==
    IF Len(buf) > 0 /\ ct - buf[1].timestamp < duration
    THEN Cleanup(Tail(buf), ct, duration)
    ELSE buf

Cleanup(buf, ct, duration) ==
    IF Len(buf) > 0 /\ ct - buf[1].timestamp > duration
    THEN Cleanup(Tail(buf), ct, duration)
    ELSE buf

\* add_event with appendleft() in place of append().
add_event_appendleft(buf, event, ct) ==
    Cleanup(<<event>> \o buf, ct, buffer_duration)

\* MidiBuffer.add_event (demo_2_grid)
add_event(buf, event, ct) == Cleanup(Append(buf, event), ct, buffer_duration)

\* ChannelMessage without the velocity test: a release is sent as a note-on.
ChannelMessageAlwaysOn(note, velocity) == <<NOTE_ON, note, velocity>>

\* The message for the output port.
ChannelMessage(note, velocity) ==
    IF velocity > 0 THEN <<NOTE_ON, note, velocity>> ELSE <<NOTE_OFF, note, 0>>

\* main() registers exactly one handler, midi_buffer.add_event, before run().
event_handlers == <<"add_event">>

\* for handler in self.event_handlers: handler(event)
RECURSIVE NotifyHandlers(_, _, _, _)
NotifyHandlers(i, st, event, ct) ==
    IF i > Len(event_handlers) THEN st
    ELSE NotifyHandlers(i + 1,
            [buffer |-> add_event(st.buffer, event, ct),
             appended |-> Append(st.appended, event)],
            event, ct)

\* ---------------------------------------------------------------- export
HalfBeat == <<1, 2>>   \* the duration argument 0.5, as a fraction of a beat

\* midi.addTempo(0, 0, 120): track, time, tempo
addTempo == [track |-> 0, time |-> 0, tempo |-> TEMPO_BPM]

\* time_beats = event.timestamp * 2
time_beats(event) == event.timestamp * BEATS_PER_SECOND

\* midi.addNote(0, 0, event.note, time_beats, 0.5, event.velocity)
addNote(event) ==
    [track |-> 0, channel |-> 0, pitch |-> event.note,
     time |-> time_beats(event), duration |-> HalfBeat,
     volume |-> event.velocity]

\* demo_0: the export loop adds a note for each event with velocity > 0.
ExportLoop0(buf) ==
    LET ons == SelectSeq(buf, LAMBDA e : e.velocity > 0)
    IN [i \in 1..Len(ons) |-> addNote(ons[i])]

\* demo_2_grid: the velocity test is commented out; every event adds a note.
ExportLoopGrid(buf) == [i \in 1..Len(buf) |-> addNote(buf[i])]

\* save_to_file without the empty-buffer test.
save_to_file_unguarded(buf, file, clock) ==
    [midi_file |-> [name |-> <<"recording_", clock, ".mid">>,
                    tempo |-> <<addTempo>>,
                    notes |-> ExportLoopGrid(buf)],
     stdout |-> "Saved recording to",
     raised |-> "none"]

\* demo_2_grid: MidiBuffer.save_to_file(filename=None), as the values it
\* leaves in (midi_file, stdout, raised).
save_to_file(buf, file, clock) ==
    IF Len(buf) = 0
    THEN [midi_file |-> file, stdout |-> "No events to save", raised |-> "none"]
    ELSE [midi_file |-> [name |-> <<"recording_", clock, ".mid">>,
                         tempo |-> <<addTempo>>,
                         notes |-> ExportLoopGrid(buf)],
          stdout |-> "Saved recording to",
          raised |-> "none"]

\* demo_0: MidiPiano.save_recording()
save_recording(buf, file, out) ==
    IF Len(buf) = 0
    THEN [midi_file |-> file, stdout |-> out, raised |-> "none"]
    ELSE [midi_file |-> [name |-> <<"recording.mid">>,
                         tempo |-> <<addTempo>>,
                         notes |-> ExportLoop0(buf)],
          stdout |-> out,
          raised |-> "none"]

\* ---------------------------------------------------------------- render
\* pygame.Rect(left, top, width, height)
Rect(left, top, width, height) ==
    [x |-> left, y |-> top, width |-> width, height |-> height]

\* The viewport run() passes: pygame.Rect(20, 580, 1018, 200)
viewport_rect == Rect(VIEWPORT_LEFT, VIEWPORT_TOP, VIEWPORT_WIDTH, VIEWPORT_HEIGHT)

Bottom(r) == r.y + r.height
Right(r) == r.x + r.width

\* InWindow without the test against window_start.
InWindowNoStart(timestamp, crt) == ~(timestamp > crt)

\* InWindow without the test against window_end.
InWindowNoEnd(timestamp, crt) == ~(timestamp < crt - time_window)

\* if event.timestamp < window_start or event.timestamp > window_end: continue
InWindow(timestamp, crt) ==
    ~(timestamp < crt - time_window \/ timestamp > crt)

\* if note_start <= event.note <= 93
InNoteRangeAny(note) == TRUE

\* "if not (self.note_start <= event.note <= self.note_end): continue"
InNoteRange(note) == note_start <= note /\ note <= note_end

\* event_x = viewport_rect.left + (timestamp - window_start) * time_scale,
\* with time_scale = viewport_rect.width / time_window, as pygame.Rect keeps it
event_x(vp, timestamp, crt) ==
    ToInt(vp.x * time_window + (timestamp - (crt - time_window)) * vp.width,
          time_window)

\* note_y - note_height, with note_y = viewport_rect.bottom -
\* (note - note_start) * note_scale and note_scale = height / note_range
note_top(vp, note) ==
    ToInt((Bottom(vp) - note_height) * note_range - (note - note_start) * vp.height,
          note_range)

\* note_rect.width = max(1, note_duration * time_scale)
note_width(vp, note_duration) ==
    ToInt(Max(time_window, note_duration * vp.width), time_window)

\* active_notes is a dict: a sequence of entries in insertion order.
HasNote(an, note) == \E i \in 1..Len(an) : an[i].note = note
NoteEntry(an, note) == an[CHOOSE i \in 1..Len(an) : an[i].note = note]

\* PutNote that leaves an entry already there as it is (first note-on wins).
PutNoteKeepFirst(an, note, start, rect) ==
    IF HasNote(an, note) THEN an
    ELSE Append(an, [note |-> note, start_time |-> start, note_rect |-> rect])

\* active_notes[note] = (start, rect): a new key goes last, an old key keeps
\* its place and gets the new value.
PutNote(an, note, start, rect) ==
    LET entry == [note |-> note, start_time |-> start, note_rect |-> rect]
    IN IF HasNote(an, note)
       THEN [i \in 1..Len(an) |-> IF an[i].note = note THEN entry ELSE an[i]]
       ELSE Append(an, entry)

\* del active_notes[note]
DelNote(an, note) == SelectSeq(an, LAMBDA e : e.note # note)

\* pygame.draw.rect(surface, color, note_rect); note, start_time and
\* note_duration are the locals the rectangle was computed from.
DrawNote(color, rect, note, start, duration) ==
    [fn |-> "rect", color |-> color, rect |-> rect, note |-> note,
     start_time |-> start, note_duration |-> duration]

DrawLine(color, start_pos, end_pos, width) ==
    [fn |-> "line", color |-> color, start_pos |-> start_pos,
     end_pos |-> end_pos, width |-> width]

STILL_ACTIVE_COLOR == <<100, 255, 100>>
BACKGROUND_COLOR == <<20, 20, 20>>
GRID_COLOR == <<40, 40, 40>>
PLAYHEAD_COLOR == <<255, 50, 50>>

\* velocity_color = min(255, event.velocity * 2); color = (vc, vc, 255)
ClosedColor(event) ==
    LET velocity_color == Min(255, event.velocity * 2)
    IN <<velocity_color, velocity_color, 255>>

\* The note-on branch of the walk.
OpenNote(st, event, vp, crt) ==
    IF InNoteRange(event.note)
    THEN [st EXCEPT !.active_notes =
            PutNote(@, event.note, event.timestamp,
                    Rect(event_x(vp, event.timestamp, crt),
                         note_top(vp, event.note), 2, note_height))]
    ELSE st

\* CloseNote without "del active_notes[event.note]".
CloseNoteKeepEntry(st, event, vp, crt) ==
    IF HasNote(st.active_notes, event.note)
    THEN LET entry == NoteEntry(st.active_notes, event.note)
             note_duration == event.timestamp - entry.start_time
             rect == [entry.note_rect EXCEPT !.width = note_width(vp, note_duration)]
         IN [active_notes |-> st.active_notes,
             drawn |-> Append(st.drawn,
                         DrawNote(ClosedColor(event), rect, event.note,
                                  entry.start_time, note_duration))]
    ELSE st

\* CloseNote without the test "event.note in active_notes": a note-off with
\* no open entry is drawn from an entry made up on the spot.
CloseNoteNoCheck(st, event, vp, crt) ==
    LET entry == IF HasNote(st.active_notes, event.note)
                 THEN NoteEntry(st.active_notes, event.note)
                 ELSE [note |-> event.note, start_time |-> event.timestamp,
                       note_rect |-> Rect(event_x(vp, event.timestamp, crt),
                                          note_top(vp, event.note), 2, note_height)]
        note_duration == event.timestamp - entry.start_time
        rect == [entry.note_rect EXCEPT !.width = note_width(vp, note_duration)]
    IN [active_notes |-> DelNote(st.active_notes, event.note),
        drawn |-> Append(st.drawn,
                    DrawNote(ClosedColor(event), rect, event.note,
                             entry.start_time, note_duration))]

\* The note-off branch of the walk.
CloseNote(st, event, vp, crt) ==
    IF HasNote(st.active_notes, event.note)
    THEN LET entry == NoteEntry(st.active_notes, event.note)
             note_duration == event.timestamp - entry.start_time
             rect == [entry.note_rect EXCEPT !.width = note_width(vp, note_duration)]
         IN [active_notes |-> DelNote(st.active_notes, event.note),
             drawn |-> Append(st.drawn,
                         DrawNote(ClosedColor(event), rect, event.note,
                                  entry.start_time, note_duration))]
    ELSE st

\* One iteration of "for event in self.buffer".
WalkStep(st, event, vp, crt) ==
    IF ~InWindow(event.timestamp, crt) THEN st
    ELSE IF event.velocity > 0 THEN OpenNote(st, event, vp, crt)
    ELSE IF event.velocity = 0 THEN CloseNote(st, event, vp, crt)
    ELSE st

RECURSIVE Walk(_, _, _, _, _)
Walk(buf, i, st, vp, crt) ==
    IF i > Len(buf) THEN st
    ELSE Walk(buf, i + 1, WalkStep(st, buf[i], vp, crt), vp, crt)

\* StillActive with the duration counted from window_start to the note-on.
StillActiveFromWindowStart(an, vp, crt) ==
    [i \in 1..Len(an) |->
        LET note_duration == an[i].start_time - (crt - time_window)
        IN DrawNote(STILL_ACTIVE_COLOR,
                    [an[i].note_rect EXCEPT !.width = note_width(vp, note_duration)],
                    an[i].note, an[i].start_time, note_duration)]

\* for note, (start_time, note_rect) in active_notes.items(): draw it
StillActive(an, vp, crt) ==
    [i \in 1..Len(an) |->
        LET note_duration == crt - an[i].start_time
        IN DrawNote(STILL_ACTIVE_COLOR,
                    [an[i].note_rect EXCEPT !.width = note_width(vp, note_duration)],
                    an[i].note, an[i].start_time, note_duration)]

\* The background and the five octave lines.
GridLines(vp) ==
    [octave \in 1..5 |->
        LET midi_note == note_start + (octave - 1) * 12
            y_pos == ToInt(Bottom(vp) * note_range - (midi_note - note_start) * vp.height,
                           note_range)
        IN DrawLine(GRID_COLOR, <<vp.x, y_pos>>, <<Right(vp), y_pos>>, 1)]

Background(vp) == <<[fn |-> "fill", color |-> BACKGROUND_COLOR, rect |-> vp]>>

Playhead(vp) ==
    <<DrawLine(PLAYHEAD_COLOR, <<Right(vp), vp.y>>, <<Right(vp), Bottom(vp)>>, 2)>>

\* fresh_active_notes that keeps the dict of the call before (the tracker
\* kept as an attribute of the buffer instead of a local).
fresh_active_notes_carried(previous) == previous

\* active_notes = {}: the dict a call starts with, whatever dict the call
\* before it ended with.
fresh_active_notes(previous) == <<>>

\* iterate that consumes the deque (popleft in a while loop).
iterate_popleft(buf) == <<>>

\* "for event in self.buffer": the deque as the loop leaves it.
iterate(buf) == buf

\* MidiBuffer.render(surface, viewport_rect, current_relative_time) called
\* when the call before it ended with the dict previous: the draw calls it
\* makes, the dict it ends with and the deque it leaves.
render_call(previous, buf, vp, crt) ==
    LET st == Walk(buf, 1, [active_notes |-> fresh_active_notes(previous),
                            drawn |-> <<>>], vp, crt)
    IN [surface |-> Background(vp) \o GridLines(vp) \o st.drawn
                    \o StillActive(st.active_notes, vp, crt) \o Playhead(vp),
        active_notes |-> st.active_notes,
        buffer |-> iterate(buf)]

\* MidiBuffer.render as the first call on a buffer.
render(buf, vp, crt) ==
    LET r == render_call(<<>>, buf, vp, crt)
    IN [surface |-> r.surface, active_notes |-> r.active_notes]

\* --------------------------------------------------------------- buttons
\* create_button_grid: the note of the button in row, col (start_note = 40)
note_number(row, col) ==
    (128 - 40) - ((row + 1) * 12) + col + (row * 7) + (IF row > 1 THEN 1 ELSE 0)

\* The buttons of the grid the model keeps, as <<row, col>>: two buttons with
\* the same note (76) and one with another (52).
ButtonCells == << <<0, 0>>, <<1, 5>>, <<5, 0>> >>

\* PianoButton(rect, color, note, label): is_pressed defaults to False.  sent
\* is the list of the velocities emitted for the button.
PianoButton(cell) ==
    [note |-> note_number(cell[1], cell[2]), is_pressed |-> FALSE, sent |-> <<>>]

create_button_grid == [b \in 1..Len(ButtonCells) |-> PianoButton(ButtonCells[b])]

\* ------------------------------------------------------------------ Init
Init ==
    /\ buttons = create_button_grid
    /\ prog \in {"demo_0", "demo_2_grid"}
    /\ now = StartEpoch
    /\ start_time = StartEpoch
    /\ buffer = <<>>
    /\ recording_buffer = <<>>
    /\ current_time = 0
    /\ midiout = <<>>
    /\ appended = <<>>
    /\ midi_file = NoFile
    /\ stdout = ""
    /\ raised = "none"
    /\ surface = <<>>
    /\ active_notes = <<>>
    /\ render_time = 0
    /\ last_op = "init"

\* MidiPiano.emit_midi_event(note, velocity) called at time.time() = t, as the
\* values it leaves in the output port and, through the handlers, the buffer.
emit_midi_event_call(st, note, velocity, t) ==
    LET event == MidiEvent(note, velocity, t)
        h == NotifyHandlers(1, [buffer |-> st.buffer, appended |-> st.appended],
                            event, t - start_time)
    IN [st EXCEPT !.midiout = Append(st.midiout, ChannelMessage(note, velocity)),
                  !.buffer = h.buffer,
                  !.appended = h.appended]

\* button.rect.collidepoint(event.pos): the grid's rectangles do not overlap,
\* so a position is the index of the button under it, or 0 for none.
collidepoint(b, pos) == b = pos

\* The press test that lets a pressed button be pressed again.
ShouldPressAlways(button) == TRUE

\* "if button.is_pressed: continue"
ShouldPress(button) == ~button.is_pressed

\* The release test of demo_0: only the pressed button under the pointer.
ShouldReleaseUnderPointer(button, hit) == button.is_pressed /\ hit

\* "for button in (b for b in self.buttons if b.is_pressed)"
ShouldRelease(button, hit) == button.is_pressed

\* The MOUSEBUTTONDOWN branch of run(): the loop over the buttons from the
\* i-th on.  sent is the list of velocities emitted for a button.
RECURSIVE mouse_button_down(_, _, _, _)
mouse_button_down(i, st, pos, t) ==
    IF i > Len(st.buttons) THEN st
    ELSE IF collidepoint(i, pos) /\ ShouldPress(st.buttons[i])
    THEN LET pressed == [st EXCEPT !.buttons[i].is_pressed = TRUE,
                                   !.buttons[i].sent = Append(@, 100)]
         IN mouse_button_down(i + 1,
                emit_midi_event_call(pressed, st.buttons[i].note, 100, t), pos, t)
    ELSE mouse_button_down(i + 1, st, pos, t)

\* The MOUSEBUTTONUP branch of run().
RECURSIVE mouse_button_up(_, _, _, _)
mouse_button_up(i, st, pos, t) ==
    IF i > Len(st.buttons) THEN st
    ELSE IF ShouldRelease(st.buttons[i], collidepoint(i, pos))
    THEN LET released == [st EXCEPT !.buttons[i].is_pressed = FALSE,
                                    !.buttons[i].sent = Append(@, 0)]
         IN mouse_button_up(i + 1,
                emit_midi_event_call(released, st.buttons[i].note, 0, t), pos, t)
    ELSE mouse_button_up(i + 1, st, pos, t)

\* The buttons that are pressed.
Pressed == {b \in 1..Len(buttons) : buttons[b].is_pressed}

\* The wall clock advances.
Tick ==
    /\ now + StepSec <= StartEpoch + MaxElapsed
    /\ now' = now + StepSec
    /\ UNCHANGED <<prog, start_time, buffer, recording_buffer, current_time,
                   midiout, appended, midi_file, stdout, raised, surface,
                   active_notes, render_time, last_op, buttons>>

\* demo_2_grid: MidiPiano.emit_midi_event(note, velocity)
emit_midi_event(note, velocity) ==
    /\ prog = "demo_2_grid"
    /\ Len(midiout) < MaxEvents
    /\ midiout' = Append(midiout, ChannelMessage(note, velocity))
    /\ LET event == MidiEvent(note, velocity, now)
           st == NotifyHandlers(1, [buffer |-> buffer, appended |-> appended],
                                event, now - start_time)
       IN /\ buffer' = st.buffer
          /\ appended' = st.appended
    /\ current_time' = now - start_time
    /\ raised' = "none"
    /\ last_op' = "emit"
    /\ UNCHANGED <<prog, now, start_time, recording_buffer, midi_file, stdout,
                   surface, active_notes, render_time, buttons>>

\* demo_0: MidiPiano.handle_midi_event(note, velocity)
handle_midi_event(note, velocity) ==
    /\ prog = "demo_0"
    /\ Len(midiout) < MaxEvents
    /\ midiout' = Append(midiout, ChannelMessage(note, velocity))
    /\ LET ct == now - start_time
           event == MidiEvent(note, velocity, ct)
       IN /\ current_time' = ct
          /\ recording_buffer' =
                Cleanup(Append(recording_buffer, event), ct, demo0_duration)
          /\ appended' = Append(appended, event)
    /\ raised' = "none"
    /\ last_op' = "emit"
    /\ UNCHANGED <<prog, now, start_time, buffer, midi_file, stdout,
                   surface, active_notes, render_time, buttons>>

\* demo_2_grid: a call of midi_buffer.save_to_file()
SaveToFile ==
    /\ prog = "demo_2_grid"
    /\ LET r == save_to_file(buffer, midi_file, now)
       IN /\ midi_file' = r.midi_file
          /\ stdout' = r.stdout
          /\ raised' = r.raised
    /\ buffer' = iterate(buffer)
    /\ last_op' = "save"
    /\ UNCHANGED <<prog, now, start_time, recording_buffer, current_time,
                   midiout, appended, surface, active_notes, render_time,
                   buttons>>

\* demo_0: a click on the save button
SaveRecording ==
    /\ prog = "demo_0"
    /\ LET r == save_recording(recording_buffer, midi_file, stdout)
       IN /\ midi_file' = r.midi_file
          /\ stdout' = r.stdout
          /\ raised' = r.raised
    /\ recording_buffer' = iterate(recording_buffer)
    /\ last_op' = "save"
    /\ UNCHANGED <<prog, now, start_time, buffer, current_time, midiout,
                   appended, surface, active_notes, render_time, buttons>>

\* demo_2_grid: midi_buffer.render(screen, Rect(20, 580, 1018, 200), t), where
\* t is time.time() when the frame is drawn, or the time.time() read a step
\* earlier.
Render(lag) ==
    /\ prog = "demo_2_grid"
    /\ now - lag >= start_time
    /\ LET r == render_call(active_notes, buffer, viewport_rect, now - lag)
       IN /\ surface' = r.surface
          /\ active_notes' = r.active_notes
          /\ buffer' = r.buffer
    /\ render_time' = now - lag
    /\ raised' = "none"
    /\ last_op' = "render"
    /\ UNCHANGED <<prog, now, start_time, recording_buffer, current_time,
                   midiout, appended, midi_file, stdout, buttons>>

\* demo_2_grid: a call of midi_buffer.save_to_file() in which open(filename,
\* "wb") raises: the notes have been collected, no file is written and the
\* message is not printed.
SaveToFileFails ==
    /\ prog = "demo_2_grid"
    /\ Len(buffer) > 0
    /\ raised' = "OSError"
    /\ buffer' = iterate(buffer)
    /\ last_op' = "save_failed"
    /\ UNCHANGED <<prog, now, start_time, recording_buffer, current_time,
                   midiout, appended, midi_file, stdout, surface,
                   active_notes, render_time, buttons>>

\* demo_2_grid: run() handles a MOUSEBUTTONDOWN event at pos.
MouseDown(pos) ==
    /\ prog = "demo_2_grid"
    /\ Len(midiout) + Cardinality(Pressed) + 2 <= MaxLoopEvents
    /\ LET st == mouse_button_down(1,
                    [buttons |-> buttons, midiout |-> midiout,
                     buffer |-> buffer, appended |-> appended], pos, now)
       IN /\ buttons' = st.buttons
          /\ midiout' = st.midiout
          /\ buffer' = st.buffer
          /\ appended' = st.appended
          /\ current_time' = IF st.midiout = midiout THEN current_time
                             ELSE now - start_time
    /\ raised' = "none"
    /\ last_op' = "mousedown"
    /\ UNCHANGED <<prog, now, start_time, recording_buffer, midi_file, stdout,
                   surface, active_notes, render_time>>

\* demo_2_grid: run() handles a MOUSEBUTTONUP event at pos.
MouseUp(pos) ==
    /\ prog = "demo_2_grid"
    /\ LET st == mouse_button_up(1,
                    [buttons |-> buttons, midiout |-> midiout,
                     buffer |-> buffer, appended |-> appended], pos, now)
       IN /\ buttons' = st.buttons
          /\ midiout' = st.midiout
          /\ buffer' = st.buffer
          /\ appended' = st.appended
          /\ current_time' = IF st.midiout = midiout THEN current_time
                             ELSE now - start_time
    /\ raised' = "none"
    /\ last_op' = "mouseup"
    /\ UNCHANGED <<prog, now, start_time, recording_buffer, midi_file, stdout,
                   surface, active_notes, render_time>>

\* The positions of a mouse event: over one of the buttons, or over none.
Positions == 0..Len(ButtonCells)

NextBuffer ==
    \/ Tick
    \/ \E note \in Notes, velocity \in Velocities : emit_midi_event(note, velocity)
    \/ \E note \in Notes, velocity \in Velocities : handle_midi_event(note, velocity)

NextExport ==
    \/ NextBuffer
    \/ SaveToFile
    \/ SaveRecording

NextRender ==
    \/ Tick
    \/ \E note \in Notes, velocity \in Velocities : emit_midi_event(note, velocity)
    \/ \E lag \in {0, StepSec} : Render(lag)

\* render and export as callers of a buffer that add_event has filled
NextConsumers ==
    \/ \E lag \in {0, StepSec} : Render(lag)
    \/ SaveToFile
    \/ SaveToFileFails

\* the event loop of run(), mouse events only
NextLoop ==
    \/ Tick
    \/ \E pos \in Positions : MouseDown(pos)
    \/ \E pos \in Positions : MouseUp(pos)

Next ==
    \/ NextExport
    \/ \E pos \in Positions : MouseDown(pos)
    \/ \E pos \in Positions : MouseUp(pos)
    \/ SaveToFileFails
    \/ \E lag \in {0, StepSec} : Render(lag)

InitGrid == Init /\ prog = "demo_2_grid"

\* The buffers add_event can have built in demo_2_grid (which never evicts):
\* the events in emit order, each stamped with the time.time() of its emit.
ConsumerNotes == {44, 45, 93, 94}
ConsumerStamps == {StartEpoch + k * StepSec : k \in 0..(MaxElapsed \div StepSec)}
ConsumerEvents ==
    {MidiEvent(n, v, t) : n \in ConsumerNotes, v \in Velocities, t \in ConsumerStamps}
TimeOrdered(buf) ==
    \A i \in 1..(Len(buf) - 1) : buf[i].timestamp <= buf[i + 1].timestamp
ConsumerBuffers ==
    {buf \in UNION {[1..k -> ConsumerEvents] : k \in 0..MaxBufLen} : TimeOrdered(buf)}

\* The program after the emits that built such a buffer, at any later time.
InitConsumers ==
    /\ buttons = create_button_grid
    /\ prog = "demo_2_grid"
    /\ start_time = StartEpoch
    /\ buffer \in ConsumerBuffers
    /\ now \in {t \in ConsumerStamps : Len(buffer) > 0 => t >= buffer[Len(buffer)].timestamp}
    /\ recording_buffer = <<>>
    /\ current_time = IF Len(buffer) = 0 THEN 0
                      ELSE buffer[Len(buffer)].timestamp - start_time
    /\ midiout = [i \in 1..Len(buffer) |-> ChannelMessage(buffer[i].note, buffer[i].velocity)]
    /\ appended = buffer
    /\ midi_file = NoFile
    /\ stdout = ""
    /\ raised = "none"
    /\ surface = <<>>
    /\ active_notes = <<>>
    /\ render_time = 0
    /\ last_op = IF Len(buffer) = 0 THEN "init" ELSE "emit"

Spec == Init /\ [][Next]_vars
SpecBuffer == Init /\ [][NextBuffer]_vars
SpecExport == Init /\ [][NextExport]_vars
SpecRender == InitGrid /\ [][NextRender]_vars
SpecConsumers == InitConsumers /\ [][NextConsumers]_vars
SpecLoop == InitGrid /\ [][NextLoop]_vars

\* The buffers of key strokes played one after the other through
\* emit_midi_event(note, velocity): a press with a velocity of its own, then
\* the release of the same note.
StrokeNotes == {60, 93}
StrokeVelocities == {64, 100}
Strokes ==
    {<<MidiEvent(n, v, t1), MidiEvent(n, 0, t2)>> :
        n \in StrokeNotes, v \in StrokeVelocities,
        t1 \in ConsumerStamps, t2 \in ConsumerStamps}
RECURSIVE StrokeBuffersOf(_)
StrokeBuffersOf(k) ==
    IF k = 0 THEN {<<>>}
    ELSE {buf \o s : buf \in StrokeBuffersOf(k - 1), s \in Strokes}
StrokeBuffers ==
    {buf \in UNION {StrokeBuffersOf(k) : k \in 1..MaxStrokes} : TimeOrdered(buf)}

InitStrokes ==
    /\ buttons = create_button_grid
    /\ prog = "demo_2_grid"
    /\ start_time = StartEpoch
    /\ buffer \in StrokeBuffers
    /\ now \in {t \in ConsumerStamps : t >= buffer[Len(buffer)].timestamp}
    /\ recording_buffer = <<>>
    /\ current_time = buffer[Len(buffer)].timestamp - start_time
    /\ midiout = [i \in 1..Len(buffer) |-> ChannelMessage(buffer[i].note, buffer[i].velocity)]
    /\ appended = buffer
    /\ midi_file = NoFile
    /\ stdout = ""
    /\ raised = "none"
    /\ surface = <<>>
    /\ active_notes = <<>>
    /\ render_time = 0
    /\ last_op = "emit"

NextStrokes ==
    \/ Tick
    \/ \E lag \in {0, StepSec} : Render(lag)

SpecStrokes == InitStrokes /\ [][NextStrokes]_vars

\* ================================================================ claims
\* The buffer of the running script.
TheBuffer == IF prog = "demo_0" THEN recording_buffer ELSE buffer

\* Seconds since the buffer's creation at which event e was emitted: demo_0
\* stores that number in the event, demo_2_grid stores time.time().
EmittedAt(e) == IF prog = "demo_0" THEN e.timestamp ELSE e.timestamp - start_time

\* ---------------------------------------------------------------------------
\* C1. Eviction invariant: after each append, every event still in the buffer
\* was emitted at most D = 30 seconds before that append (now - timestamp <= D,
\* both counted from the buffer's creation).  current_time is the time of the
\* latest append.  Fails in demo_2_grid, where the events carry time.time()
\* and add_event compares them with a time relative to start_time.
EvictionInvariant ==
    \A i \in 1..Len(TheBuffer) : current_time - EmittedAt(TheBuffer[i]) <= 30

\* ---------------------------------------------------------------------------
\* C2. Order preservation: the buffer is a contiguous suffix of the arrival
\* sequence, in arrival order, and adjacent events have non-decreasing
\* timestamps.
OrderPreservation ==
    LET b == TheBuffer
        k == Len(appended) - Len(b)
    IN /\ k >= 0
       /\ \A i \in 1..Len(b) : b[i] = appended[k + i]
       /\ \A i \in 1..(Len(b) - 1) : b[i].timestamp <= b[i + 1].timestamp

\* An eviction has happened and left at least two events.
OrderPreservationWitness ==
    /\ Len(TheBuffer) >= 2
    /\ Len(TheBuffer) < Len(appended)

\* ---------------------------------------------------------------------------
\* C3. Emit atomicity: every emit sends exactly one message (0x90,note,velocity
\* for velocity > 0, 0x80,note,0 for velocity = 0) and appends exactly one
\* event; the messages sent and the events appended correspond one to one in
\* the same order, and the newest event is the tail of the buffer.
EmitAtomicity ==
    /\ Len(midiout) = Len(appended)
    /\ \A i \in 1..Len(appended) :
          LET e == appended[i]
          IN midiout[i] = IF e.velocity > 0 THEN <<144, e.note, e.velocity>>
                          ELSE <<128, e.note, 0>>
    /\ Len(appended) > 0 =>
          /\ Len(TheBuffer) > 0
          /\ TheBuffer[Len(TheBuffer)] = appended[Len(appended)]

\* A press and a release have both been emitted.
EmitAtomicityWitness ==
    /\ Len(midiout) >= 2
    /\ \E i, j \in 1..Len(midiout) : midiout[i][1] = 144 /\ midiout[j][1] = 128

ExportSkipsNoteOffs ==
    (last_op = "save" /\ Len(TheBuffer) > 0) =>
        LET ons == SelectSeq(TheBuffer, LAMBDA e : e.velocity > 0)
        IN /\ Len(midi_file.notes) = Len(ons)
           /\ \A i \in 1..Len(ons) :
                 /\ midi_file.notes[i].pitch = ons[i].note
                 /\ midi_file.notes[i].volume = ons[i].velocity

\* ---------------------------------------------------------------------------
\* C6. Fixed export duration: every exported note sits at beat 2 * timestamp
\* of its note-on event and lasts exactly 0.5 beats; the tempo event is 120 BPM
\* at time 0.  Fails in demo_2_grid, which also exports a note for each
\* note-off event (C5), placed at the note-off's time.
FixedExportDuration ==
    (last_op = "save" /\ Len(TheBuffer) > 0) =>
        /\ midi_file.tempo = <<[track |-> 0, time |-> 0, tempo |-> 120]>>
        /\ \A k \in 1..Len(midi_file.notes) :
              /\ midi_file.notes[k].duration = <<1, 2>>
              /\ \E i \in 1..Len(TheBuffer) :
                    /\ TheBuffer[i].velocity > 0
                    /\ TheBuffer[i].note = midi_file.notes[k].pitch
                    /\ midi_file.notes[k].time = 2 * TheBuffer[i].timestamp

\* ---------------------------------------------------------------------------
\* Vocabulary of the render claims.  They speak of the render that ran last
\* (last_op = "render"): buffer is what it walked, render_time its
\* current_relative_time, surface its draw calls, active_notes its dict.
IsOn(i) == buffer[i].velocity > 0
IsOff(i) == buffer[i].velocity = 0
InRange(i) == buffer[i].note >= 45 /\ buffer[i].note <= 93
InView(i) ==
    /\ buffer[i].timestamp >= render_time - 10
    /\ buffer[i].timestamp <= render_time

\* The later events for the note of event i, and the first of them.
LaterSame(i) == {j \in (i + 1)..Len(buffer) : buffer[j].note = buffer[i].note}
NextSame(i) == CHOOSE j \in LaterSame(i) : \A k \in LaterSame(i) : j <= k

\* Event i is an in-range note-on whose next event for the note is a note-off,
\* both in the window.
ClosedPair(i) ==
    /\ IsOn(i) /\ InRange(i) /\ InView(i)
    /\ LaterSame(i) # {}
    /\ IsOff(NextSame(i)) /\ InView(NextSame(i))

\* Event i is the last event for its note in the window.
LastInView(i) == \A j \in LaterSame(i) : ~InView(j)

NoteRects(n) == {k \in DOMAIN surface : surface[k].fn = "rect" /\ surface[k].note = n}
StillRects(n) == {k \in NoteRects(n) : surface[k].color = <<100, 255, 100>>}
ClosedRects(n) == NoteRects(n) \ StillRects(n)

\* A note-on that is not overwritten: its next event for the note in the window
\* is not a note-on.
Effective(m) ==
    /\ IsOn(m) /\ InRange(m) /\ InView(m)
    /\ ~(LaterSame(m) # {} /\ InView(NextSame(m)) /\ IsOn(NextSame(m)))

\* The pixel width of max(1, d * time_scale) and the pixel of
\* left + (t - window_start) * time_scale, for the viewport of run().
PixelWidth(d) == IF d * 1018 < 10 THEN 1 ELSE (d * 1018) \div 10
PixelX(t) == 20 + ((t - (render_time - 10)) * 1018) \div 10

\* ---------------------------------------------------------------------------
\* C7. Pairing correctness: an in-range note-on at t1 whose next event for the
\* note is a note-off at t2 >= t1, both in the window, gives exactly one closed
\* rectangle for the note, at offset (t1 - window_start) * time_scale and of
\* width (t2 - t1) * time_scale (at least 1 pixel), and no still-sounding
\* rectangle for the note.
PairingCorrectness ==
    last_op = "render" =>
        \A i \in 1..Len(buffer) :
            ClosedPair(i) =>
                LET n == buffer[i].note
                    t1 == buffer[i].timestamp
                    t2 == buffer[NextSame(i)].timestamp
                    pairs == {m \in 1..Len(buffer) : ClosedPair(m) /\ buffer[m].note = n}
                IN /\ t2 >= t1
                   /\ Cardinality(ClosedRects(n)) = Cardinality(pairs)
                   /\ \E k \in ClosedRects(n) :
                         /\ surface[k].start_time = t1
                         /\ surface[k].note_duration = t2 - t1
                         /\ surface[k].rect.x = PixelX(t1)
                         /\ surface[k].rect.width = PixelWidth(t2 - t1)
                   /\ LastInView(NextSame(i)) => StillRects(n) = {}

\* A render has drawn a press and its release a step later.
PairingWitness ==
    /\ last_op = "render"
    /\ \E i \in 1..Len(buffer) :
          /\ ClosedPair(i)
          /\ buffer[NextSame(i)].timestamp > buffer[i].timestamp
          /\ LastInView(NextSame(i))
          /\ Cardinality(ClosedRects(buffer[i].note)) = 1

\* ---------------------------------------------------------------------------
\* C8. Unterminated note: an in-range note whose last event in the window is a
\* note-on at t1, with no later note-off in the buffer, gets exactly one
\* still-sounding rectangle, of duration current_time - t1, in the
\* still-sounding colour, and no closed rectangle for the open interval.
UnterminatedNote ==
    last_op = "render" =>
        \A i \in 1..Len(buffer) :
            ( /\ IsOn(i) /\ InRange(i) /\ InView(i) /\ LastInView(i)
              /\ \A j \in LaterSame(i) : ~IsOff(j) ) =>
                LET n == buffer[i].note
                    t1 == buffer[i].timestamp
                    pairs == {m \in 1..Len(buffer) : ClosedPair(m) /\ buffer[m].note = n}
                IN /\ Cardinality(StillRects(n)) = 1
                   /\ \A k \in StillRects(n) :
                         /\ surface[k].start_time = t1
                         /\ surface[k].note_duration = render_time - t1
                         /\ surface[k].rect.x = PixelX(t1)
                         /\ surface[k].rect.width = PixelWidth(render_time - t1)
                   /\ Cardinality(ClosedRects(n)) = Cardinality(pairs)
                   /\ \A k \in ClosedRects(n) : surface[k].color # <<100, 255, 100>>

\* A render has drawn a note that has been held for a step.
UnterminatedWitness ==
    /\ last_op = "render"
    /\ \E i \in 1..Len(buffer) :
          /\ IsOn(i) /\ InRange(i) /\ InView(i) /\ LaterSame(i) = {}
          /\ render_time > buffer[i].timestamp
          /\ StillRects(buffer[i].note) # {}

\* ---------------------------------------------------------------------------
\* C9. Retrigger: two note-ons for one in-range note at t1 < t2 in the window,
\* with no event for the note between them, leave the open entry with start
\* t2; a following note-off at t3 gives one rectangle of duration t3 - t2, not
\* t3 - t1, and the first note-on gets no rectangle of its own.
Retrigger ==
    last_op = "render" =>
        \A i \in 1..Len(buffer) :
            ( /\ IsOn(i) /\ InRange(i) /\ InView(i)
              /\ LaterSame(i) # {}
              /\ IsOn(NextSame(i)) /\ InView(NextSame(i))
              /\ buffer[i].timestamp < buffer[NextSame(i)].timestamp ) =>
                LET n == buffer[i].note
                    j == NextSame(i)
                    t1 == buffer[i].timestamp
                    t2 == buffer[j].timestamp
                IN /\ LastInView(j) =>
                         /\ \E a \in 1..Len(active_notes) :
                               active_notes[a].note = n /\ active_notes[a].start_time = t2
                         /\ \A a \in 1..Len(active_notes) :
                               active_notes[a].note = n => active_notes[a].start_time = t2
                   /\ ClosedPair(j) =>
                         LET t3 == buffer[NextSame(j)].timestamp
                         IN /\ \E k \in ClosedRects(n) :
                                  /\ surface[k].start_time = t2
                                  /\ surface[k].note_duration = t3 - t2
                            /\ \A k \in NoteRects(n) :
                                  ~(surface[k].start_time = t1
                                    /\ surface[k].note_duration = t3 - t1)
                   /\ Cardinality({k \in NoteRects(n) : surface[k].start_time = t1})
                        = Cardinality({m \in 1..Len(buffer) :
                                         /\ Effective(m)
                                         /\ buffer[m].note = n
                                         /\ buffer[m].timestamp = t1})

\* A render has walked press, press a step later, release.
RetriggerWitness ==
    /\ last_op = "render"
    /\ \E i \in 1..Len(buffer) :
          /\ IsOn(i) /\ InRange(i) /\ InView(i)
          /\ LaterSame(i) # {}
          /\ IsOn(NextSame(i)) /\ InView(NextSame(i))
          /\ buffer[i].timestamp < buffer[NextSame(i)].timestamp
          /\ ClosedPair(NextSame(i))
          /\ Cardinality(NoteRects(buffer[i].note)) = 1

\* ---------------------------------------------------------------------------
\* C10. Out-of-window exclusion: an event with timestamp < current_time - 10
\* or > current_time contributes no rectangle and opens, overwrites and closes
\* no active-note entry: the render draws, and ends with, what it would with
\* those events absent, and every rectangle starts inside the window.
OutOfWindowExclusion ==
    last_op = "render" =>
        LET inside == SelectSeq(buffer,
                        LAMBDA e : /\ e.timestamp >= render_time - 10
                                   /\ e.timestamp <= render_time)
            r == render(inside, viewport_rect, render_time)
        IN /\ surface = r.surface
           /\ active_notes = r.active_notes
           /\ \A k \in DOMAIN surface :
                 surface[k].fn = "rect" =>
                    /\ surface[k].start_time >= render_time - 10
                    /\ surface[k].start_time <= render_time

\* A render has walked a buffer with an in-range press before the window, one
\* in it and one after it, and drawn the one in it.
OutOfWindowWitness ==
    /\ last_op = "render"
    /\ \E i, j, k \in 1..Len(buffer) :
          /\ IsOn(i) /\ InRange(i) /\ buffer[i].timestamp < render_time - 10
          /\ IsOn(j) /\ InRange(j) /\ InView(j)
          /\ IsOn(k) /\ InRange(k) /\ buffer[k].timestamp > render_time
    /\ \E n \in Notes : NoteRects(n) # {}

\* ---------------------------------------------------------------------------
\* C14. No premature eviction: events leave the buffer only from the head and
\* only when older than D (strictly) at an append: the buffer is the arrival
\* sequence less a prefix, every event of that prefix was emitted more than
\* 30 s before the latest append, and so an event of age <= 30 s at an append
\* is still in the buffer after it.
NoPrematureEviction ==
    LET b == TheBuffer
        k == Len(appended) - Len(b)
    IN /\ k >= 0
       /\ \A i \in 1..Len(b) : b[i] = appended[k + i]
       /\ \A i \in 1..k : current_time - EmittedAt(appended[i]) > 30
       /\ \A i \in 1..Len(appended) :
             current_time - EmittedAt(appended[i]) <= 30 =>
                \E j \in 1..Len(b) : j = i - k /\ b[j] = appended[i]

\* An append has evicted an event and kept one of age exactly 30 s.
NoPrematureEvictionWitness ==
    /\ Len(TheBuffer) >= 1
    /\ Len(TheBuffer) < Len(appended)
    /\ current_time - EmittedAt(TheBuffer[1]) = 30

Orphan(j) ==
    /\ IsOff(j) /\ InView(j)
    /\ LET before == {i \in 1..(j - 1) : buffer[i].note = buffer[j].note /\ InView(i)}
       IN \/ before = {}
          \/ LET p == CHOOSE i \in before : \A m \in before : m <= i
             IN ~(IsOn(p) /\ InRange(p))

\* The events i..Len(buffer) of the buffer, less the orphan note-offs.
RECURSIVE WithoutOrphans(_)
WithoutOrphans(i) ==
    IF i > Len(buffer) THEN <<>>
    ELSE IF Orphan(i) THEN WithoutOrphans(i + 1)
    ELSE <<buffer[i]>> \o WithoutOrphans(i + 1)

\* C16. Orphan note-off: a note-off in the window for a note with no open
\* entry draws no rectangle, raises nothing and leaves the tracker as it is:
\* the render draws, and ends with, what it would without the orphans, and the
\* closed rectangles of a note are as many as its note-offs that are no
\* orphans.
OrphanNoteOffDropped ==
    last_op = "render" =>
        LET r == render(WithoutOrphans(1), viewport_rect, render_time)
        IN /\ surface = r.surface
           /\ active_notes = r.active_notes
           /\ raised = "none"
           /\ \A n \in Notes :
                 Cardinality(ClosedRects(n)) =
                    Cardinality({j \in 1..Len(buffer) :
                                   /\ buffer[j].note = n
                                   /\ IsOff(j) /\ InView(j) /\ ~Orphan(j)})

\* A render has walked a release whose press lies before the window.
OrphanWitness ==
    /\ last_op = "render"
    /\ \E i, j \in 1..Len(buffer) :
          /\ i < j
          /\ IsOn(i) /\ InRange(i) /\ buffer[i].timestamp < render_time - 10
          /\ buffer[j].note = buffer[i].note
          /\ Orphan(j)
          /\ NoteRects(buffer[j].note) = {}

\* ---------------------------------------------------------------------------
\* C20. Rectangle extent bounds: every rectangle a render draws has a duration
\* d with 0 <= d <= 10 s, starts at an offset within [0, viewport.width] and
\* has the width max(1, d * time_scale) in pixels, never below 1.
RectangleExtentBounds ==
    last_op = "render" =>
        \A k \in DOMAIN surface :
            surface[k].fn = "rect" =>
                /\ surface[k].note_duration >= 0
                /\ surface[k].note_duration <= 10
                /\ surface[k].rect.x - 20 >= 0
                /\ surface[k].rect.x - 20 <= 1018
                /\ surface[k].rect.width = PixelWidth(surface[k].note_duration)
                /\ surface[k].rect.width >= 1

\* A render has drawn a rectangle as long as the window and one of no length.
RectangleExtentWitness ==
    /\ last_op = "render"
    /\ \E k, m \in DOMAIN surface :
          /\ surface[k].fn = "rect" /\ surface[k].note_duration = 10
          /\ surface[m].fn = "rect" /\ surface[m].note_duration = 0
          /\ surface[m].rect.width = 1

\* ---------------------------------------------------------------------------
\* C11. Out-of-range exclusion: render draws no rectangle for an event whose
\* note is below 45 or above 93, and draws what it would draw of the buffer
\* without those events; neither render nor export raises on them.
OutOfRangeExclusion ==
    /\ last_op = "render" =>
          LET inside == SelectSeq(buffer, LAMBDA e : e.note >= 45 /\ e.note <= 93)
              r == render(inside, viewport_rect, render_time)
          IN /\ \A k \in DOMAIN surface :
                   surface[k].fn = "rect" =>
                      surface[k].note >= 45 /\ surface[k].note <= 93
             /\ \A i \in 1..Len(active_notes) :
                   active_notes[i].note >= 45 /\ active_notes[i].note <= 93
             /\ surface = r.surface
             /\ raised = "none"
    /\ last_op = "save" => raised = "none"

\* A render has walked a press below and a press above the range, both in the
\* window, on a buffer that has also been exported.
OutOfRangeWitness ==
    /\ last_op = "render"
    /\ midi_file # NoFile
    /\ \E i, j \in 1..Len(buffer) :
          /\ IsOn(i) /\ InView(i) /\ buffer[i].note < 45
          /\ IsOn(j) /\ InView(j) /\ buffer[j].note > 93
    /\ \A n \in ConsumerNotes : NoteRects(n) = {}

\* ---------------------------------------------------------------------------
\* C12. Render and export leave the buffer unchanged: a render, an export, an
\* export that returns early on the empty buffer and an export that fails on
\* the file write all leave the buffer with the same events in the same order;
\* only an append changes it.
ConsumersLeaveBuffer ==
    [][ /\ last_op' \in {"render", "save", "save_failed"} =>
              buffer' = buffer /\ recording_buffer' = recording_buffer
        /\ (buffer' # buffer \/ recording_buffer' # recording_buffer) =>
              last_op' = "emit" ]_vars

\* A buffer with events has been rendered and exported, and its last export
\* failed on the file write.
ConsumersLeaveBufferWitness ==
    /\ last_op = "save_failed"
    /\ surface # <<>>
    /\ midi_file # NoFile
    /\ Len(buffer) = MaxBufLen
    /\ buffer = appended

\* ---------------------------------------------------------------------------
\* C13. Determinism without carried state: what a render draws and leaves in
\* its tracker is decided by the buffer and current_time alone.  A note is
\* tracked and drawn as still sounding exactly if the last event for it in the
\* window is an in-range note-on, whatever a render before it tracked; every
\* rectangle starts at a note-on of the buffer in the window.  What an export
\* writes is decided by the buffer alone: one note per event, in order.
DeterminismNoCarriedState ==
    /\ last_op = "render" =>
          \A n \in ConsumerNotes \cup Notes :
              LET sounding == \E i \in 1..Len(buffer) :
                                 /\ buffer[i].note = n
                                 /\ InView(i) /\ LastInView(i)
                                 /\ IsOn(i) /\ InRange(i)
              IN /\ HasNote(active_notes, n) <=> sounding
                 /\ (StillRects(n) # {}) <=> sounding
                 /\ \A k \in NoteRects(n) :
                       \E i \in 1..Len(buffer) :
                          /\ buffer[i].note = n /\ IsOn(i) /\ InView(i)
                          /\ surface[k].start_time = buffer[i].timestamp
    /\ (last_op = "save" /\ Len(buffer) > 0) =>
          /\ Len(midi_file.notes) = Len(buffer)
          /\ \A i \in 1..Len(buffer) :
                /\ midi_file.notes[i].pitch = buffer[i].note
                /\ midi_file.notes[i].volume = buffer[i].velocity
                /\ midi_file.notes[i].time = 2 * buffer[i].timestamp

\* A render has run with an unterminated in-range press lying before its
\* window and has drawn nothing for it, on a buffer that has been exported.
DeterminismWitness ==
    /\ last_op = "render"
    /\ midi_file # NoFile
    /\ \E i \in 1..Len(buffer) :
          /\ IsOn(i) /\ InRange(i) /\ LaterSame(i) = {}
          /\ buffer[i].timestamp < render_time - 10
          /\ NoteRects(buffer[i].note) = {}
          /\ ~HasNote(active_notes, buffer[i].note)

\* ---------------------------------------------------------------------------
\* C17. Velocity-derived colour: two closed notes played with different
\* note-on velocities, both below saturation, are drawn with different
\* intensities.  Fails: the colour is taken from the note-off event, whose
\* velocity is 0, so every closed rectangle is (0, 0, 255).
VelocityDerivedColour ==
    last_op = "render" =>
        \A i, j \in 1..Len(buffer) :
            ( /\ ClosedPair(i) /\ ClosedPair(j)
              /\ buffer[i].velocity # buffer[j].velocity
              /\ ( buffer[i].note # buffer[j].note
                   \/ buffer[i].timestamp # buffer[j].timestamp )
              /\ buffer[i].velocity * 2 < 255
              /\ buffer[j].velocity * 2 < 255 ) =>
                \A k \in ClosedRects(buffer[i].note), m \in ClosedRects(buffer[j].note) :
                    ( /\ surface[k].start_time = buffer[i].timestamp
                      /\ surface[m].start_time = buffer[j].timestamp
                      /\ k # m ) =>
                        surface[k].color # surface[m].color

\* ---------------------------------------------------------------------------
\* Vocabulary of the control-loop claims: the note-ons and note-offs for note
\* n the output port has received.
OnsSent(n) == {i \in 1..Len(midiout) : midiout[i] = <<144, n, 100>>}
OffsSent(n) == {i \in 1..Len(midiout) : midiout[i] = <<128, n, 0>>}
ButtonNotes == {buttons[b].note : b \in 1..Len(buttons)}

\* C18. Release-all on mouse-up: a MOUSEBUTTONUP, wherever the pointer is,
\* makes each pressed button emit exactly one note-off and become unpressed,
\* and unpressed buttons emit nothing; after it no button is pressed and every
\* note-on emitted so far has been followed by a note-off for the same note.
ReleaseAllOnMouseUp ==
    /\ [](last_op = "mouseup" =>
            /\ Pressed = {}
            /\ \A n \in ButtonNotes :
                  /\ Cardinality(OnsSent(n)) = Cardinality(OffsSent(n))
                  /\ \A i \in OnsSent(n) : \E j \in OffsSent(n) : j > i)
    /\ [][ (last_op' = "mouseup" /\ now' = now) =>
              /\ \A b \in 1..Len(buttons) :
                    /\ ~buttons'[b].is_pressed
                    /\ buttons'[b].sent = IF buttons[b].is_pressed
                                          THEN Append(buttons[b].sent, 0)
                                          ELSE buttons[b].sent
              /\ Len(midiout') = Len(midiout) + Cardinality(Pressed)
              /\ \A i \in 1..Len(midiout) : midiout'[i] = midiout[i]
              /\ \A n \in ButtonNotes :
                    Cardinality({i \in (Len(midiout) + 1)..Len(midiout') :
                                    midiout'[i] = <<128, n, 0>>}) =
                    Cardinality({b \in Pressed : buttons[b].note = n}) ]_vars

\* One mouse-up has released two buttons that were held together.
ReleaseAllWitness ==
    /\ last_op = "mouseup"
    /\ Len(midiout) = 4
    /\ midiout[3][1] = 128 /\ midiout[4][1] = 128
    /\ \E a, b \in 1..Len(buttons) :
          /\ a # b
          /\ buttons[a].sent = <<100, 0>>
          /\ buttons[b].sent = <<100, 0>>
          /\ buttons[a].note # buttons[b].note

\* ---------------------------------------------------------------------------
\* C19. Per-button alternation: the events emitted for one button alternate
\* note-on, note-off, starting with note-on; the button is pressed exactly
\* when the last event emitted for it was a note-on; nothing is emitted that
\* is not some button's press or release (a press of a pressed button emits
\* nothing).
PerButtonAlternation ==
    /\ \A b \in 1..Len(buttons) :
          LET sent == buttons[b].sent
          IN /\ \A i \in 1..Len(sent) : sent[i] = IF i % 2 = 1 THEN 100 ELSE 0
             /\ buttons[b].is_pressed <=> (Len(sent) > 0 /\ sent[Len(sent)] = 100)
    /\ \A n \in ButtonNotes :
          /\ Cardinality(OnsSent(n)) =
                Cardinality({<<b, i>> \in (1..Len(buttons)) \X (1..MaxLoopEvents) :
                                /\ buttons[b].note = n
                                /\ i <= Len(buttons[b].sent)
                                /\ buttons[b].sent[i] = 100})
          /\ Cardinality(OffsSent(n)) =
                Cardinality({<<b, i>> \in (1..Len(buttons)) \X (1..MaxLoopEvents) :
                                /\ buttons[b].note = n
                                /\ i <= Len(buttons[b].sent)
                                /\ buttons[b].sent[i] = 0})
    /\ Len(midiout) =
          Cardinality(UNION {OnsSent(n) \cup OffsSent(n) : n \in ButtonNotes})

\* A button has been pressed, released and pressed again, and is held.
PerButtonAlternationWitness ==
    /\ last_op = "mousedown"
    /\ \E b \in 1..Len(buttons) :
          /\ buttons[b].sent = <<100, 0, 100>>
          /\ buttons[b].is_pressed

====
